---------------------------- MODULE Spec2Model ----------------------------
(***************************************************************************)
(* Touille backend: the recipe store and settings store of app/db.py, the  *)
(* POST /process pipeline of app/main.py (cache check, download,           *)
(* transcribe, extract, persist) and the temporary media of                *)
(* app/download.py.                                                        *)
(*                                                                         *)
(* Strings that the code takes apart (URLs) are sequences of one-character *)
(* strings; strings the code only stores and compares are TLA+ strings.    *)
(* Python's None is the value None below.                                  *)
(***************************************************************************)
EXTENDS Naturals, Sequences, FiniteSets

VARIABLES
    recipes,         \* table recipes: a set of rows
    recipes_id_seq,  \* the serial sequence behind recipes.id: last value drawn
    clock,           \* the time: it advances at every statement that writes
    user_settings,   \* table user_settings: a set of rows
    setcall,         \* per caller: where its set_user_settings call stands
    api_key,         \* os.environ.get("ANTHROPIC_API_KEY"), None when unset
    saveLog,         \* history: the save_recipe calls made so far, in order
    ret,             \* the last value a store function or a GET handler returned
    pc,              \* per POST /process request: where process_video stands
    req,             \* per request: ProcessRequest (url, user_id)
    result,          \* per request: DownloadResult (video_path, caption)
    transcript,      \* per request: transcribe_video's text
    recipe_dict,     \* per request: extract_recipe's dict
    response,        \* per request: ProcessResponse or the HTTPException raised
    calls,           \* history: per request, the calls made to each collaborator
    hit,             \* history: per request, the row lookup_recipe found (or None)
    fs,              \* the file system: the temporary paths that exist
    raised,          \* history: per request, the calls that raised, in order
    norm,            \* a run of _normalize_tiktok_url on its own (SpecNorm)
    chat,            \* a run of _build_chat_prompt on its own (SpecChat)
    cli              \* a run of the standalone script src/transcribe.py (SpecCli)

vars == <<recipes, recipes_id_seq, clock, user_settings, setcall, api_key, saveLog,
          ret, pc, req, result, transcript, recipe_dict, response, calls, hit, fs,
          raised, norm, chat, cli>>

storeVars == <<recipes, recipes_id_seq, clock, saveLog>>
settingsVars == <<user_settings, setcall>>
\* What a POST /process request never writes.
sideVars == <<user_settings, setcall, api_key, ret, norm, chat, cli>>
procVars == <<pc, req, result, transcript, recipe_dict, response, calls, hit, fs,
              raised>>

-----------------------------------------------------------------------------
(* Bounds of the model. *)

\* POST /process requests in flight or finished (slots are not reused).
NumRequests == 2
\* save_recipe calls made directly on the store (SpecStore).
MaxSaves == 2
\* Length of the part of a raw URL before its query and fragment (SpecNorm).
MaxBaseLen == 4
\* Length of the query-and-fragment suffix of a raw URL (SpecNorm).
MaxSuffixLen == 2
\* set_user_settings calls made (SpecSettings), and the callers making them.
MaxSettingsCalls == 3
NumCallers == 2
\* The largest absolute value of a stored spice_tolerance (SpecPrefs).
MaxSpice == 7
\* Length of the history of a chat request (SpecChat).
MaxHistory == 3
\* Steps of the recipe of a chat request, and the largest Step.order.
MaxSteps == 2
MaxOrder == 2
\* Chunks of text a chat stream yields.
MaxChunks == 2
\* save_recipe calls made before and between listings (SpecListing).
MaxListedSaves == 3

-----------------------------------------------------------------------------
(* Values. *)

\* None where a string is expected, Nothing where a row or a dict is, and for
\* an optional number <<>> or <<n>>.
None == "<None>"
Nothing == [nothing |-> TRUE]
NoNumber == <<>>
Some(n) == <<n>>

Min(S) == CHOOSE x \in S : \A y \in S : x <= y
Max(S) == CHOOSE x \in S : \A y \in S : x >= y
MinOrZero(S) == IF S = {} THEN 0 ELSE Min(S)
MaxOrZero(S) == IF S = {} THEN 0 ELSE Max(S)

Take(s, n) == SubSeq(s, 1, IF n < Len(s) THEN n ELSE Len(s))
Drop(s, n) == SubSeq(s, n + 1, Len(s))

\* str.find(chars, start): the first position >= from holding one of cs, 0 if none.
Find(s, cs, from) == MinOrZero({i \in from..Len(s) : s[i] \in cs})

\* str.rfind(c): the last position holding c, 0 if none.
RFind(s, c) == MaxOrZero({i \in 1..Len(s) : s[i] = c})

\* s.split(c, 1) at position i (0: c does not occur): <<before, after>>.
Cut(s, i) == IF i = 0 THEN <<s, <<>>>> ELSE <<Take(s, i - 1), Drop(s, i)>>

-----------------------------------------------------------------------------
(* urllib.parse as _normalize_tiktok_url uses it.  Letters stand for        *)
(* themselves; the one-letter scheme "h" stands for a scheme listed in      *)
(* uses_netloc and uses_params (http, https), "z" for one listed in         *)
(* neither.  Each stage of urlsplit hands what is left of the URL to the    *)
(* next one.                                                                *)

SchemeChars == {"h", "z", "x", "v", "w", "q", "f"}
uses_netloc == {<<>>, <<"h">>}
uses_params == {<<>>, <<"h">>}

\* `i = url.find(':')`, and the scheme when url[:i] is made of scheme characters.
SchemeAt(url, i) ==
    IF i > 1 /\ \A k \in 1..(i - 1) : url[k] \in SchemeChars
    THEN <<Take(url, i - 1), Drop(url, i)>>
    ELSE <<<<>>, url>>

\* _splitnetloc(url, 2): up to the first of / ? #, at position d (0: none).
NetlocAt(url, d) ==
    IF d = 0
    THEN <<SubSeq(url, 3, Len(url)), <<>>>>
    ELSE <<SubSeq(url, 3, d - 1), Drop(url, d - 1)>>

SplitNetloc(url) ==
    IF Take(url, 2) = <<"/", "/">>
    THEN NetlocAt(url, Find(url, {"/", "?", "#"}, 3))
    ELSE <<<<>>, url>>

SplitQuery(scheme, netloc, pq, fragment) ==
    [scheme |-> scheme, netloc |-> netloc, path |-> pq[1], query |-> pq[2],
     fragment |-> fragment]

SplitFragment(scheme, netloc, uf) ==
    SplitQuery(scheme, netloc, Cut(uf[1], Find(uf[1], {"?"}, 1)), uf[2])

SplitRest(scheme, nr) ==
    SplitFragment(scheme, nr[1], Cut(nr[2], Find(nr[2], {"#"}, 1)))

SplitAfterScheme(sr) == SplitRest(sr[1], SplitNetloc(sr[2]))

urlsplit(url) == SplitAfterScheme(SchemeAt(url, Find(url, {":"}, 1)))

\* _splitparams: the parameters of the last path segment.
ParamsFrom(url, slash) ==
    Cut(url, IF slash > 0 THEN Find(url, {";"}, slash) ELSE Find(url, {";"}, 1))

splitparams(url) == ParamsFrom(url, RFind(url, "/"))

WithParams(s, pp) ==
    [scheme |-> s.scheme, netloc |-> s.netloc, path |-> pp[1], params |-> pp[2],
     query |-> s.query, fragment |-> s.fragment]

ParseSplit(s) ==
    IF s.scheme \in uses_params /\ Find(s.path, {";"}, 1) > 0
    THEN WithParams(s, splitparams(s.path))
    ELSE WithParams(s, <<s.path, <<>>>>)

urlparse(url) == ParseSplit(urlsplit(url))

\* `if url and url[:1] != '/': url = '/' + url`
Rooted(path) == IF path # <<>> /\ path[1] # "/" THEN <<"/">> \o path ELSE path

WithNetloc(scheme, netloc, path) ==
    IF netloc # <<>> \/ (scheme # <<>> /\ scheme \in uses_netloc
                         /\ Take(path, 2) # <<"/", "/">>)
    THEN <<"/", "/">> \o netloc \o Rooted(path)
    ELSE path

WithScheme(scheme, url) == IF scheme # <<>> THEN scheme \o <<":">> \o url ELSE url
WithQuery(url, query) == IF query # <<>> THEN url \o <<"?">> \o query ELSE url
WithFragment(url, fragment) == IF fragment # <<>> THEN url \o <<"#">> \o fragment ELSE url

urlunsplit(scheme, netloc, path, query, fragment) ==
    WithFragment(WithQuery(WithScheme(scheme, WithNetloc(scheme, netloc, path)), query),
                 fragment)

urlunparse(scheme, netloc, path, params, query, fragment) ==
    urlunsplit(scheme, netloc,
               IF params # <<>> THEN path \o <<";">> \o params ELSE path,
               query, fragment)

Unparsed(parsed) ==
    urlunparse(parsed.scheme, parsed.netloc, parsed.path, <<>>, <<>>, <<>>)

\* The raw URLs that requests and store calls carry: one video with and
\* without a query and a fragment, and another video.
Url_v == <<"h", ":", "/", "/", "x", "/", "v">>
Url_v_q == Url_v \o <<"?", "q", "#", "f">>
Url_w == <<"h", ":", "/", "/", "x", "/", "w">>

\* Their normalizations, computed once rather than at every call.
KnownUrls == [raw_url \in {Url_v, Url_v_q, Url_w} |-> Unparsed(urlparse(raw_url))]

_normalize_tiktok_url(raw_url) ==
    IF raw_url \in DOMAIN KnownUrls
    THEN KnownUrls[raw_url]
    ELSE Unparsed(urlparse(raw_url))

-----------------------------------------------------------------------------
(* The recipe store (app/db.py, app/sa_models.py). *)

_ANON == "__anonymous__"

\* `user_id or _ANON`: None and the empty string are both falsy.
EffectiveUser(user_id) ==
    IF user_id = None \/ user_id = "" THEN _ANON ELSE user_id

\* The rows the unique constraint uq_recipes_url_user_id sets against (url, user).
Conflicting(rows, url, user) ==
    {row \in rows : row.url = url /\ row.user_id = user}

\* A slip: the raw URL is compared with the stored one.
lookup_recipe_raw_url(raw_url, user_id) ==
    LET found == Conflicting(recipes, raw_url, EffectiveUser(user_id))
    IN  IF found = {}
        THEN Nothing
        ELSE LET row == CHOOSE r \in found : TRUE
             IN  [id |-> row.id, transcript |-> row.transcript,
                  caption |-> row.caption, recipe |-> row.recipe]

\* A slip: the user is not resolved to the anonymous sentinel.
lookup_recipe_unresolved_user(raw_url, user_id) ==
    LET found == Conflicting(recipes, _normalize_tiktok_url(raw_url), user_id)
    IN  IF found = {}
        THEN Nothing
        ELSE LET row == CHOOSE r \in found : TRUE
             IN  [id |-> row.id, transcript |-> row.transcript,
                  caption |-> row.caption, recipe |-> row.recipe]

lookup_recipe(raw_url, user_id) ==
    LET url == _normalize_tiktok_url(raw_url)
        effective_user == EffectiveUser(user_id)
        found == Conflicting(recipes, url, effective_user)
    IN  IF found = {}
        THEN Nothing
        ELSE LET row == CHOOSE r \in found : TRUE
             IN  [id |-> row.id, transcript |-> row.transcript,
                  caption |-> row.caption, recipe |-> row.recipe]

\* A slip: a plain INSERT on a table without the unique constraint.
insert_recipe(rows, url, user, transcript_, caption, recipe, new_id, now) ==
    [rows |-> rows \cup {[id |-> new_id, url |-> url, user_id |-> user,
                           transcript |-> transcript_, caption |-> caption,
                           recipe |-> recipe, created_at |-> now]},
     rid |-> new_id]

\* A slip: created_at is listed in SET too.
upsert_recipe_touching_created_at(rows, url, user, transcript_, caption, recipe, new_id, now) ==
    LET conflict == Conflicting(rows, url, user)
    IN  IF conflict = {}
        THEN insert_recipe(rows, url, user, transcript_, caption, recipe, new_id, now)
        ELSE [rows |-> (rows \ conflict) \cup
                       {[row EXCEPT !.transcript = transcript_, !.caption = caption,
                                    !.recipe = recipe, !.created_at = now] :
                        row \in conflict},
              rid |-> (CHOOSE row \in conflict : TRUE).id]

\* INSERT ... ON CONFLICT ON CONSTRAINT uq_recipes_url_user_id DO UPDATE SET
\* transcript, caption, recipe ... RETURNING id, as one statement.  The proposed
\* row draws its id from the sequence and its created_at from the column
\* default before the conflict is found, so the sequence advances either way.
upsert_recipe(rows, url, user, transcript_, caption, recipe, new_id, now) ==
    LET conflict == Conflicting(rows, url, user)
    IN  IF conflict = {}
        THEN [rows |-> rows \cup {[id |-> new_id, url |-> url, user_id |-> user,
                                   transcript |-> transcript_, caption |-> caption,
                                   recipe |-> recipe, created_at |-> now]},
              rid |-> new_id]
        ELSE [rows |-> (rows \ conflict) \cup
                       {[row EXCEPT !.transcript = transcript_, !.caption = caption,
                                    !.recipe = recipe] : row \in conflict},
              rid |-> (CHOOSE row \in conflict : TRUE).id]

\* save_recipe as a step: `by` is the request that calls it, 0 for a direct call.
save_recipe(raw_url, transcript_, caption, recipe, user_id, by) ==
    LET url == _normalize_tiktok_url(raw_url)
        effective_user == EffectiveUser(user_id)
        done == upsert_recipe(recipes, url, effective_user, transcript_, caption,
                              recipe, recipes_id_seq + 1, clock + 1)
    IN  /\ recipes' = done.rows
        /\ recipes_id_seq' = recipes_id_seq + 1
        /\ clock' = clock + 1
        /\ saveLog' = Append(saveLog,
                [raw_url |-> raw_url, user_id |-> user_id, url |-> url,
                 user |-> effective_user, transcript |-> transcript_,
                 caption |-> caption, recipe |-> recipe, by |-> by,
                 at |-> clock + 1, rid |-> done.rid])

\* A get_recipe_by_id that filters on the id alone.
get_recipe_by_id_any_owner(recipe_id, user_id) ==
    LET found == {row \in recipes : row.id = recipe_id}
    IN  IF found = {}
        THEN Nothing
        ELSE LET row == CHOOSE r \in found : TRUE
             IN  [id |-> row.id, url |-> row.url, recipe |-> row.recipe,
                  created_at |-> row.created_at]

get_recipe_by_id(recipe_id, user_id) ==
    LET found == {row \in recipes : row.id = recipe_id /\ row.user_id = user_id}
    IN  IF found = {}
        THEN Nothing
        ELSE LET row == CHOOSE r \in found : TRUE
             IN  [id |-> row.id, url |-> row.url, recipe |-> row.recipe,
                  created_at |-> row.created_at]

-----------------------------------------------------------------------------
(* The Recipe document (app/models.py) and what extract_recipe can get      *)
(* back from the model (app/extract.py).  A dict is known by its title, its *)
(* "modifications" entry and whether it holds keys the schema lacks.        *)

Absent == "<absent>"
Invalid == [invalid |-> TRUE]

\* Recipe(**d): title is required, unknown keys are dropped, an absent
\* modifications defaults to None.
Recipe(d) ==
    IF d.title = Absent
    THEN Invalid
    ELSE [title |-> d.title,
          modifications |-> IF d.modifications = Absent THEN None ELSE d.modifications]

APIError == [error |-> "anthropic.APIError"]
NotJson == [error |-> "json.JSONDecodeError"]

ModelDicts ==
    { [title |-> "T1", modifications |-> Absent, extra |-> FALSE],
      [title |-> "T2", modifications |-> "[m]", extra |-> TRUE],
      [title |-> Absent, modifications |-> "[]", extra |-> FALSE] }

ModelOutputs == {APIError, NotJson} \cup ModelDicts

\* A slip: the dict is returned as the model gave it.
extract_recipe_as_returned(out) == out

\* extract_recipe: json.loads, then `if "modifications" not in out`.
extract_recipe(out) ==
    IF out.modifications = Absent THEN [out EXCEPT !.modifications = "[]"] ELSE out

\* get_user_settings (app/db.py): the user's row as a dict, or None.
get_user_settings(user_id) ==
    LET found == {row \in user_settings : row.user_id = user_id}
    IN  IF found = {} THEN Nothing ELSE CHOOSE row \in found : TRUE

\* Python's truth test on a str | None argument.
Truthy(x) == x # None /\ x # ""

\* Python's list indexing: negative indices count from the end, and an index
\* outside -len..len-1 raises IndexError.
IndexError == [raises |-> "IndexError"]
PyInRange(list, i) == 0 - Len(list) <= i /\ i < Len(list)
PyIndex(list, i) == IF 0 <= i THEN list[i + 1] ELSE list[Len(list) + i + 1]

spice_labels ==
    <<"0 = none", "1 = low", "2 = medium", "3 = medium-high", "4 = high",
      "5 = very high">>

\* spice_labels[min(spice, 5)]
spice_index(spice) == IF spice < 5 THEN spice ELSE 5
spice_label(spice) == PyIndex(spice_labels, spice_index(spice))

\* _settings_prompt_block: the lines of the preference block, or the IndexError
\* raised while the spice line is rendered.  The lines are records of different
\* shapes, so the block is compared as a whole.
_settings_prompt_block(settings) ==
    IF ~PyInRange(spice_labels, spice_index(settings.spice_tolerance))
    THEN IndexError
    ELSE [lines |->
         (IF Truthy(settings.dietary_restrictions)
          THEN <<[line |-> "Dietary restrictions or allergies",
                  value |-> settings.dietary_restrictions]>>
          ELSE <<>>)
         \o <<[line |-> "Spice tolerance", value |-> settings.spice_tolerance,
                label |-> spice_label(settings.spice_tolerance)]>>
         \o (IF Truthy(settings.custom_rules)
             THEN <<[line |-> "Additional rules", value |-> settings.custom_rules]>>
             ELSE <<>>)]

\* Line 98 of main.py and lines 91-93 of extract.py: the block appended to the
\* system prompt, "" when the request has no user or the user has no row.
SystemBlock(user_id) ==
    IF Truthy(user_id) /\ get_user_settings(user_id) # Nothing
    THEN _settings_prompt_block(get_user_settings(user_id))
    ELSE [lines |-> <<>>]

Transcripts == {"t1", "t2"}
Captions == {None, "c1"}

-----------------------------------------------------------------------------
(* POST /process (app/main.py process_video, app/download.py).  A request   *)
(* is interleaved with the others at each call it makes; the handler's      *)
(* locals (result, transcript, recipe_dict) end with the handler.           *)

Requests == 1..NumRequests

\* What a caller can send as user_id: nothing, or any string.
UserArgs == {None, _ANON, "alice"}

\* The POST /process bodies sent: one video under two raw URLs, two callers.
ProcessRequests ==
    { [url |-> Url_v, user_id |-> None],
      [url |-> Url_v_q, user_id |-> None],
      [url |-> Url_v, user_id |-> "alice"] }

NoCalls == [download |-> 0, transcribe |-> 0, extract |-> 0, save |-> 0]

TmpDir(p) == <<"tmpdir", p>>
VideoPath(p) == <<"tmpdir", p, "video.mp4">>

HTTPException(status_code, detail) == [status |-> status_code, detail |-> detail]

\* What the server answers when the handler lets an exception through.
InternalServerError == HTTPException(500, "Internal Server Error")

ProcessResponse(transcript_, caption, recipe, recipe_id) ==
    [status |-> 200, transcript |-> transcript_, caption |-> caption,
     recipe |-> recipe, recipe_id |-> recipe_id]

\* A slip: the credential is not checked before the pipeline starts.
api_key_not_checked == FALSE

\* _get_api_key: `if not key`.
api_key_missing == api_key = None \/ api_key = ""

\* Lines 71-83: the cache check, and on a miss the credential check.
CacheCheck(p, url, user_id) ==
    /\ pc[p] = "idle"
    /\ IF p = 1 THEN TRUE ELSE pc[p - 1] # "idle"
    /\ req' = [req EXCEPT ![p] = [url |-> url, user_id |-> user_id]]
    /\ LET cached == lookup_recipe(url, user_id)
       IN  /\ hit' = [hit EXCEPT ![p] = cached]
           /\ IF cached # Nothing
              THEN IF Recipe(cached.recipe) = Invalid
                   THEN /\ pc' = [pc EXCEPT ![p] = "failed"]
                        /\ response' = [response EXCEPT ![p] = InternalServerError]
                        /\ raised' = [raised EXCEPT ![p] = <<"Recipe">>]
                   ELSE /\ pc' = [pc EXCEPT ![p] = "done"]
                        /\ response' = [response EXCEPT ![p] =
                               ProcessResponse(cached.transcript, cached.caption,
                                               Recipe(cached.recipe), cached.id)]
                        /\ UNCHANGED raised
              ELSE IF api_key_missing
                   THEN /\ pc' = [pc EXCEPT ![p] = "failed"]
                        /\ response' = [response EXCEPT ![p] =
                               HTTPException(500, "ANTHROPIC_API_KEY is not configured")]
                        /\ raised' = [raised EXCEPT ![p] = <<"_get_api_key">>]
                   ELSE /\ pc' = [pc EXCEPT ![p] = "download"]
                        /\ UNCHANGED <<response, raised>>
    /\ UNCHANGED <<storeVars, sideVars, result, transcript,
                   recipe_dict, calls, fs>>

\* download_tiktok returns: mkdtemp made the directory, yt-dlp wrote the file.
DownloadOk(p, caption) ==
    /\ pc[p] = "download"
    /\ calls' = [calls EXCEPT ![p].download = @ + 1]
    /\ fs' = fs \cup {TmpDir(p), VideoPath(p)}
    /\ result' = [result EXCEPT ![p] = [video_path |-> VideoPath(p), caption |-> caption]]
    /\ pc' = [pc EXCEPT ![p] = "transcribe"]
    /\ UNCHANGED <<storeVars, sideVars, req, transcript,
                   recipe_dict, response, hit, raised>>

\* download_tiktok raises RuntimeError: mkdtemp made the directory, yt-dlp failed.
DownloadFails(p) ==
    /\ pc[p] = "download"
    /\ calls' = [calls EXCEPT ![p].download = @ + 1]
    /\ fs' = fs \cup {TmpDir(p)}
    /\ response' = [response EXCEPT ![p] = HTTPException(422, "Failed to download video")]
    /\ raised' = [raised EXCEPT ![p] = <<"download_tiktok">>]
    /\ pc' = [pc EXCEPT ![p] = "failed"]
    /\ UNCHANGED <<storeVars, sideVars, req, result, transcript,
                   recipe_dict, hit>>

\* The finally block: `if result.video_path and os.path.exists(...): os.unlink(...)`.
unlink_video(files, video_path) == files \ {video_path}

TranscribeOk(p, text) ==
    /\ pc[p] = "transcribe"
    /\ calls' = [calls EXCEPT ![p].transcribe = @ + 1]
    /\ transcript' = [transcript EXCEPT ![p] = text]
    /\ fs' = unlink_video(fs, result[p].video_path)
    /\ pc' = [pc EXCEPT ![p] = "extract"]
    /\ UNCHANGED <<storeVars, sideVars, req, result,
                   recipe_dict, response, hit, raised>>

TranscribeFails(p) ==
    /\ pc[p] = "transcribe"
    /\ calls' = [calls EXCEPT ![p].transcribe = @ + 1]
    /\ fs' = unlink_video(fs, result[p].video_path)
    /\ response' = [response EXCEPT ![p] = HTTPException(500, "Transcription failed")]
    /\ raised' = [raised EXCEPT ![p] = <<"transcribe_video">>]
    /\ pc' = [pc EXCEPT ![p] = "failed"]
    /\ result' = [result EXCEPT ![p] = Nothing]
    /\ UNCHANGED <<storeVars, sideVars, req, transcript,
                   recipe_dict, hit>>

\* A slip: a failed extraction is tried again.
Extract_retrying(p, out) ==
    /\ pc[p] = "extract"
    /\ calls[p].extract < 2
    /\ calls' = [calls EXCEPT ![p].extract = @ + 1]
    /\ IF /\ SystemBlock(req[p].user_id) # IndexError
          /\ out \in ModelDicts
          /\ Recipe(extract_recipe(out)) # Invalid
       THEN /\ recipe_dict' = [recipe_dict EXCEPT ![p] = extract_recipe(out)]
            /\ pc' = [pc EXCEPT ![p] = "persist"]
       ELSE UNCHANGED <<recipe_dict, pc>>
    /\ UNCHANGED <<storeVars, sideVars, req, hit, fs, response, result,
                   transcript, raised>>

\* What raises in the try block of lines 99-105 for the model output `out`.
ExtractionError(user_id, out) ==
    IF SystemBlock(user_id) = IndexError THEN "_settings_prompt_block"
    ELSE IF out \notin ModelDicts THEN "extract_recipe"
    ELSE "Recipe"

\* A slip: the dict is saved as soon as it is parsed, before it is validated.
Extract_saving_unvalidated(p, out) ==
    /\ pc[p] = "extract"
    /\ calls' = [calls EXCEPT ![p].extract = @ + 1]
    /\ IF SystemBlock(req[p].user_id) # IndexError /\ out \in ModelDicts
       THEN save_recipe(req[p].url, transcript[p], result[p].caption,
                        extract_recipe(out), req[p].user_id, p)
       ELSE UNCHANGED storeVars
    /\ IF /\ SystemBlock(req[p].user_id) # IndexError
          /\ out \in ModelDicts
          /\ Recipe(extract_recipe(out)) # Invalid
       THEN /\ recipe_dict' = [recipe_dict EXCEPT ![p] = extract_recipe(out)]
            /\ pc' = [pc EXCEPT ![p] = "persist"]
            /\ UNCHANGED <<response, result, transcript, raised>>
       ELSE /\ response' = [response EXCEPT ![p] =
                   HTTPException(500, "Recipe extraction failed")]
            /\ raised' = [raised EXCEPT ![p] = <<ExtractionError(req[p].user_id, out)>>]
            /\ pc' = [pc EXCEPT ![p] = "failed"]
            /\ result' = [result EXCEPT ![p] = Nothing]
            /\ transcript' = [transcript EXCEPT ![p] = None]
            /\ UNCHANGED recipe_dict
    /\ UNCHANGED <<sideVars, req, hit, fs>>

\* Lines 98-105: the user's settings, then extract_recipe and the schema
\* validation in one try block.
Extract(p, out) ==
    /\ pc[p] = "extract"
    /\ calls' = [calls EXCEPT ![p].extract = @ + 1]
    /\ IF /\ SystemBlock(req[p].user_id) # IndexError
          /\ out \in ModelDicts
          /\ Recipe(extract_recipe(out)) # Invalid
       THEN /\ recipe_dict' = [recipe_dict EXCEPT ![p] = extract_recipe(out)]
            /\ pc' = [pc EXCEPT ![p] = "persist"]
            /\ UNCHANGED <<response, result, transcript, raised>>
       ELSE /\ response' = [response EXCEPT ![p] =
                   HTTPException(500, "Recipe extraction failed")]
            /\ raised' = [raised EXCEPT ![p] = <<ExtractionError(req[p].user_id, out)>>]
            /\ pc' = [pc EXCEPT ![p] = "failed"]
            /\ result' = [result EXCEPT ![p] = Nothing]
            /\ transcript' = [transcript EXCEPT ![p] = None]
            /\ UNCHANGED recipe_dict
    /\ UNCHANGED <<storeVars, sideVars, req, hit, fs>>

\* Lines 107-114: save_recipe and the response.
\* A slip: the miss answers the dict it stored, not the validated document.
Persist_answering_stored_dict(p) ==
    /\ pc[p] = "persist"
    /\ calls' = [calls EXCEPT ![p].save = @ + 1]
    /\ save_recipe(req[p].url, transcript[p], result[p].caption, recipe_dict[p],
                   req[p].user_id, p)
    /\ response' = [response EXCEPT ![p] =
           ProcessResponse(transcript[p], result[p].caption, recipe_dict[p],
                           saveLog'[Len(saveLog')].rid)]
    /\ pc' = [pc EXCEPT ![p] = "done"]
    /\ result' = [result EXCEPT ![p] = Nothing]
    /\ transcript' = [transcript EXCEPT ![p] = None]
    /\ recipe_dict' = [recipe_dict EXCEPT ![p] = Nothing]
    /\ UNCHANGED <<sideVars, req, hit, fs, raised>>

Persist(p) ==
    /\ pc[p] = "persist"
    /\ calls' = [calls EXCEPT ![p].save = @ + 1]
    /\ save_recipe(req[p].url, transcript[p], result[p].caption, recipe_dict[p],
                   req[p].user_id, p)
    /\ response' = [response EXCEPT ![p] =
           ProcessResponse(transcript[p], result[p].caption, Recipe(recipe_dict[p]),
                           saveLog'[Len(saveLog')].rid)]
    /\ pc' = [pc EXCEPT ![p] = "done"]
    /\ result' = [result EXCEPT ![p] = Nothing]
    /\ transcript' = [transcript EXCEPT ![p] = None]
    /\ recipe_dict' = [recipe_dict EXCEPT ![p] = Nothing]
    /\ UNCHANGED <<sideVars, req, hit, fs, raised>>

-----------------------------------------------------------------------------
(* POST /process when a call raises something the handler has no except     *)
(* clause for: the exception leaves process_video and the server answers    *)
(* 500 Internal Server Error.                                               *)

\* lookup_recipe raises (the database cannot be reached).
LookupFails(p, url, user_id) ==
    /\ pc[p] = "idle"
    /\ IF p = 1 THEN TRUE ELSE pc[p - 1] # "idle"
    /\ req' = [req EXCEPT ![p] = [url |-> url, user_id |-> user_id]]
    /\ raised' = [raised EXCEPT ![p] = <<"lookup_recipe">>]
    /\ response' = [response EXCEPT ![p] = InternalServerError]
    /\ pc' = [pc EXCEPT ![p] = "failed"]
    /\ UNCHANGED <<storeVars, sideVars, result, transcript, recipe_dict, calls,
                   hit, fs>>

\* download_tiktok: mkdtemp made the directory, then subprocess.run raises
\* OSError (yt-dlp cannot be started); only RuntimeError is caught at line 87.
DownloadCrashes(p) ==
    /\ pc[p] = "download"
    /\ calls' = [calls EXCEPT ![p].download = @ + 1]
    /\ fs' = fs \cup {TmpDir(p)}
    /\ raised' = [raised EXCEPT ![p] = <<"subprocess.run">>]
    /\ response' = [response EXCEPT ![p] = InternalServerError]
    /\ pc' = [pc EXCEPT ![p] = "failed"]
    /\ UNCHANGED <<storeVars, sideVars, req, result, transcript, recipe_dict, hit>>

\* transcribe_video returns and os.unlink raises in the finally block.
TranscribeOkUnlinkFails(p, text) ==
    /\ pc[p] = "transcribe"
    /\ calls' = [calls EXCEPT ![p].transcribe = @ + 1]
    /\ raised' = [raised EXCEPT ![p] = <<"os.unlink">>]
    /\ response' = [response EXCEPT ![p] = InternalServerError]
    /\ pc' = [pc EXCEPT ![p] = "failed"]
    /\ result' = [result EXCEPT ![p] = Nothing]
    /\ UNCHANGED <<storeVars, sideVars, req, transcript, recipe_dict, hit, fs>>

\* transcribe_video raises, the except clause raises HTTPException(500), and
\* os.unlink raises in the finally block: the exception of the finally block
\* is the one that leaves the handler.
TranscribeFailsUnlinkFails(p) ==
    /\ pc[p] = "transcribe"
    /\ calls' = [calls EXCEPT ![p].transcribe = @ + 1]
    /\ raised' = [raised EXCEPT ![p] = <<"transcribe_video", "os.unlink">>]
    /\ response' = [response EXCEPT ![p] = InternalServerError]
    /\ pc' = [pc EXCEPT ![p] = "failed"]
    /\ result' = [result EXCEPT ![p] = Nothing]
    /\ UNCHANGED <<storeVars, sideVars, req, transcript, recipe_dict, hit, fs>>

\* get_user_settings raises at line 98, before the try block of the extraction.
SettingsReadFails(p) ==
    /\ pc[p] = "extract"
    /\ Truthy(req[p].user_id)
    /\ raised' = [raised EXCEPT ![p] = <<"get_user_settings">>]
    /\ response' = [response EXCEPT ![p] = InternalServerError]
    /\ pc' = [pc EXCEPT ![p] = "failed"]
    /\ result' = [result EXCEPT ![p] = Nothing]
    /\ transcript' = [transcript EXCEPT ![p] = None]
    /\ UNCHANGED <<storeVars, sideVars, req, recipe_dict, calls, hit, fs>>

\* save_recipe raises at line 107: nothing is committed.
PersistFails(p) ==
    /\ pc[p] = "persist"
    /\ calls' = [calls EXCEPT ![p].save = @ + 1]
    /\ raised' = [raised EXCEPT ![p] = <<"save_recipe">>]
    /\ response' = [response EXCEPT ![p] = InternalServerError]
    /\ pc' = [pc EXCEPT ![p] = "failed"]
    /\ result' = [result EXCEPT ![p] = Nothing]
    /\ transcript' = [transcript EXCEPT ![p] = None]
    /\ recipe_dict' = [recipe_dict EXCEPT ![p] = Nothing]
    /\ UNCHANGED <<storeVars, sideVars, req, hit, fs>>

\* The service is stopped and started again with another environment; the
\* tables and the temporary files stay.
Restart(key) ==
    /\ \A p \in Requests : pc[p] \in {"idle", "done", "failed"}
    /\ key # api_key
    /\ api_key' = key
    /\ UNCHANGED <<storeVars, settingsVars, ret, norm, chat, procVars, cli>>

-----------------------------------------------------------------------------
(* The store functions and GET /recipes/{recipe_id} called on their own.    *)

StoreUrls == {Url_v, Url_v_q, Url_w}

\* What save_recipe is given to store.
Payloads ==
    { [transcript |-> "t1", caption |-> None,
       recipe |-> [title |-> "T1", modifications |-> "[]", extra |-> FALSE]],
      [transcript |-> "t2", caption |-> "c1",
       recipe |-> [title |-> "T2", modifications |-> "[m]", extra |-> TRUE]] }

SaveRecipe(raw_url, payload, user_id) ==
    /\ save_recipe(raw_url, payload.transcript, payload.caption, payload.recipe,
                   user_id, 0)
    /\ ret' = [op |-> "save_recipe", value |-> saveLog'[Len(saveLog')].rid]
    /\ UNCHANGED <<settingsVars, api_key, norm, chat, procVars, cli>>

LookupRecipe(raw_url, user_id) ==
    /\ ret' = [op |-> "lookup_recipe", raw_url |-> raw_url, user_id |-> user_id,
               value |-> lookup_recipe(raw_url, user_id)]
    /\ UNCHANGED <<storeVars, settingsVars, api_key, norm, chat, procVars, cli>>

\* GET /recipes/{recipe_id}?user_id= (main.py get_recipe).
GetRecipe(recipe_id, user_id) ==
    /\ ret' = [op |-> "get_recipe", recipe_id |-> recipe_id, user_id |-> user_id,
               status |-> IF get_recipe_by_id(recipe_id, user_id) = Nothing
                          THEN 404 ELSE 200,
               value |-> get_recipe_by_id(recipe_id, user_id)]
    /\ UNCHANGED <<storeVars, settingsVars, api_key, norm, chat, procVars, cli>>

\* ORDER BY created_at DESC: the rows, newest first.
RECURSIVE NewestFirst(_)
NewestFirst(rows) ==
    IF rows = {}
    THEN <<>>
    ELSE LET newest == CHOOSE r \in rows : \A o \in rows : o.created_at <= r.created_at
         IN  <<newest>> \o NewestFirst(rows \ {newest})

\* ORDER BY created_at ASC, a slip.
RECURSIVE OldestFirst(_)
OldestFirst(rows) ==
    IF rows = {}
    THEN <<>>
    ELSE LET oldest == CHOOSE r \in rows : \A o \in rows : r.created_at <= o.created_at
         IN  <<oldest>> \o OldestFirst(rows \ {oldest})

RowSummary(row) ==
    [id |-> row.id, url |-> row.url, recipe |-> row.recipe, created_at |-> row.created_at]

list_recipes_for_user_oldest_first(user_id) ==
    LET rows == OldestFirst({row \in recipes : row.user_id = user_id})
    IN  [i \in 1..Len(rows) |-> RowSummary(rows[i])]

\* list_recipes_for_user (app/db.py): the user's rows, newest first, as dicts.
list_recipes_for_user(user_id) ==
    LET rows == NewestFirst({row \in recipes : row.user_id = user_id})
    IN  [i \in 1..Len(rows) |-> RowSummary(rows[i])]

\* GET /recipes?user_id= (main.py get_user_recipes).
ListRecipes(user_id) ==
    /\ ret' = [op |-> "list_recipes_for_user", user_id |-> user_id,
               value |-> list_recipes_for_user(user_id)]
    /\ UNCHANGED <<storeVars, settingsVars, api_key, norm, chat, procVars, cli>>

-----------------------------------------------------------------------------
(* The settings store (app/db.py).  set_user_settings reads the row, merges, *)
(* writes with one upsert and reads the row again to return it.             *)

SettingsUsers == {"alice", "bob"}
DietArgs == {None, "vegan"}
SpiceArgs == {NoNumber, Some(0), Some(4)}
RulesArgs == {None, "no nuts"}
Callers == 1..NumCallers

\* `(existing or {}).get(field)`, and .get("spice_tolerance", 2).
Existing(existing, field, default) ==
    IF existing = Nothing THEN default ELSE existing[field]

\* A slip: `x or existing` where the code has `x if x is not None else existing`.
merged_by_truth(existing, dietary_restrictions, spice_tolerance, custom_rules) ==
    [dietary_restrictions |->
        IF dietary_restrictions \notin {None, ""} THEN dietary_restrictions
        ELSE Existing(existing, "dietary_restrictions", None),
     spice_tolerance |->
        IF spice_tolerance \notin {NoNumber, Some(0)} THEN spice_tolerance[1]
        ELSE Existing(existing, "spice_tolerance", 2),
     custom_rules |->
        IF custom_rules \notin {None, ""} THEN custom_rules
        ELSE Existing(existing, "custom_rules", None)]

merged(existing, dietary_restrictions, spice_tolerance, custom_rules) ==
    [dietary_restrictions |->
        IF dietary_restrictions # None THEN dietary_restrictions
        ELSE Existing(existing, "dietary_restrictions", None),
     spice_tolerance |->
        IF spice_tolerance # NoNumber THEN spice_tolerance[1]
        ELSE Existing(existing, "spice_tolerance", 2),
     custom_rules |->
        IF custom_rules # None THEN custom_rules
        ELSE Existing(existing, "custom_rules", None)]

\* A slip: updated_at is left out of the SET clause.
upsert_settings_keeping_updated_at(rows, user_id, m, now) ==
    {row \in rows : row.user_id # user_id} \cup
    {[user_id |-> user_id, dietary_restrictions |-> m.dietary_restrictions,
      spice_tolerance |-> m.spice_tolerance, custom_rules |-> m.custom_rules,
      updated_at |-> IF \E row \in rows : row.user_id = user_id
                     THEN (CHOOSE row \in rows : row.user_id = user_id).updated_at
                     ELSE now]}

\* INSERT ... ON CONFLICT (user_id) DO UPDATE SET the three fields and updated_at.
upsert_settings(rows, user_id, m, now) ==
    {row \in rows : row.user_id # user_id} \cup
    {[user_id |-> user_id, dietary_restrictions |-> m.dietary_restrictions,
      spice_tolerance |-> m.spice_tolerance, custom_rules |-> m.custom_rules,
      updated_at |-> now]}

IdleCall == [pc |-> "idle"]
InFlight == {c \in Callers : setcall[c].pc # "idle"}

\* Lines 112-117: existing = get_user_settings(user_id), then the merge.
SetSettingsRead(c, user_id, dietary_restrictions, spice_tolerance, custom_rules) ==
    /\ setcall[c].pc = "idle"
    /\ IF c = 1 THEN TRUE ELSE setcall[c - 1].pc # "idle" \/ clock > 0
    /\ clock + Cardinality(InFlight) < MaxSettingsCalls
    /\ setcall' = [setcall EXCEPT ![c] =
           [pc |-> "merged", user_id |-> user_id,
            dietary_restrictions |-> dietary_restrictions,
            spice_tolerance |-> spice_tolerance, custom_rules |-> custom_rules,
            merged |-> merged(get_user_settings(user_id), dietary_restrictions,
                              spice_tolerance, custom_rules)]]
    /\ UNCHANGED <<storeVars, user_settings, api_key, ret, norm, chat, procVars, cli>>

\* Lines 118-136: the upsert and its commit.
SetSettingsWrite(c) ==
    /\ setcall[c].pc = "merged"
    /\ user_settings' = upsert_settings(user_settings, setcall[c].user_id,
                                        setcall[c].merged, clock + 1)
    /\ clock' = clock + 1
    /\ setcall' = [setcall EXCEPT ![c].pc = "written"]
    /\ UNCHANGED <<recipes, recipes_id_seq, saveLog, api_key, ret, norm, chat, procVars, cli>>

\* Line 137: `return get_user_settings(user_id) or {}`.
SetSettingsReturn(c) ==
    /\ setcall[c].pc = "written"
    /\ ret' = [op |-> "set_user_settings", user_id |-> setcall[c].user_id,
               value |-> get_user_settings(setcall[c].user_id)]
    /\ setcall' = [setcall EXCEPT ![c] = IdleCall]
    /\ UNCHANGED <<storeVars, user_settings, api_key, norm, chat, procVars, cli>>

-----------------------------------------------------------------------------
(* POST /chat (app/main.py): the message list _build_chat_prompt assembles   *)
(* from ChatRequest.history and ChatRequest.message.  The system prompt it   *)
(* returns beside the list is reduced to its steps_text; the generator the   *)
(* handler hands to StreamingResponse runs after the handler has returned.   *)

ChatRoles == {"user", "assistant"}
ChatContents == {"a", "b"}

\* models.ChatMessage, and the dict the comprehension makes of one.
ChatMessage(role, content) == [type |-> "ChatMessage", role |-> role, content |-> content]
MessageDict(role, content) == [role |-> role, content |-> content]

ChatMessages == {ChatMessage(role, content) : role \in ChatRoles, content \in ChatContents}
Histories == UNION {[1..k -> ChatMessages] : k \in 0..MaxHistory}

ChatIdle == [pc |-> "idle"]

\* models.Step, without duration_minutes and require_timer.
Step(order, instruction) == [order |-> order, instruction |-> instruction]
Instructions == {"stir", "bake"}
Steps == {Step(order, instruction) : order \in 1..MaxOrder, instruction \in Instructions}
StepLists == UNION {[1..k -> Steps] : k \in 0..MaxSteps}
CompletedLists == UNION {[1..k -> 1..MaxOrder] : k \in 0..MaxSteps}

\* models.ChatRequest as the handler receives it, with the results of the
\* handler and of the stream not yet there.
ChatRequest(steps, current_step, completed_steps, message, history) ==
    [pc |-> "start", steps |-> steps, current_step |-> current_step,
     completed_steps |-> completed_steps, message |-> message, history |-> history,
     messages |-> <<>>, steps_text |-> <<>>, chunks |-> 0, error |-> Nothing]

\* Python's `x in list`.
PyIn(x, list) == \E i \in DOMAIN list : list[i] = x

\* One line of steps_text: "  Step {order}{markers}: {instruction}".
StepLine(order, markers, instruction) ==
    [order |-> order, markers |-> markers, instruction |-> instruction]

\* A slip: the two markers exclude each other.
steps_text_one_marker(steps, completed_steps, current_step) ==
    [i \in 1..Len(steps) |->
        StepLine(steps[i].order,
                 IF steps[i].order = current_step THEN <<"[CURRENT]">>
                 ELSE IF PyIn(steps[i].order, completed_steps) THEN <<"[COMPLETED]">>
                 ELSE <<>>,
                 steps[i].instruction)]

\* Lines 154-157: one line per element of req.recipe.steps, joined by "\n".
steps_text(steps, completed_steps, current_step) ==
    [i \in 1..Len(steps) |->
        StepLine(steps[i].order,
                 (IF PyIn(steps[i].order, completed_steps) THEN <<"[COMPLETED]">> ELSE <<>>)
                 \o (IF steps[i].order = current_step THEN <<"[CURRENT]">> ELSE <<>>),
                 steps[i].instruction)]

\* A slip: the new message is put first.
_build_chat_prompt_newest_first(history, message) ==
    <<MessageDict("user", message)>>
    \o [i \in 1..Len(history) |-> MessageDict(history[i].role, history[i].content)]

\* Lines 182-187: the comprehension over req.history, then messages.append.
_build_chat_prompt(history, message) ==
    [i \in 1..Len(history) |-> MessageDict(history[i].role, history[i].content)]
    \o <<MessageDict("user", message)>>

\* chat_about_step up to its return: _get_api_key, then _build_chat_prompt.
BuildChatPrompt ==
    /\ chat.pc = "start"
    /\ chat' = IF api_key_missing
               THEN [chat EXCEPT !.pc = "failed",
                                 !.error = HTTPException(500, "ANTHROPIC_API_KEY is not configured")]
               ELSE [chat EXCEPT !.pc = "built",
                                 !.messages = _build_chat_prompt(chat.history, chat.message),
                                 !.steps_text = steps_text(chat.steps, chat.completed_steps,
                                                           chat.current_step)]
    /\ UNCHANGED <<storeVars, settingsVars, api_key, ret, norm, procVars, cli>>

\* generate(): the stream yields one more chunk of text.
StreamChunk ==
    /\ chat.pc \in {"built", "streaming"}
    /\ chat.chunks < MaxChunks
    /\ chat' = [chat EXCEPT !.pc = "streaming", !.chunks = @ + 1]
    /\ UNCHANGED <<storeVars, settingsVars, api_key, ret, norm, procVars, cli>>

\* A slip: the end of a turn empties the recipe store.
StreamEnds_clearing_store ==
    /\ chat.pc \in {"built", "streaming"}
    /\ chat' = [chat EXCEPT !.pc = "done"]
    /\ recipes' = {}
    /\ UNCHANGED <<recipes_id_seq, clock, saveLog, settingsVars, api_key, ret, norm, procVars, cli>>

\* generate(): text_stream is exhausted and the `with` block is left.
StreamEnds ==
    /\ chat.pc \in {"built", "streaming"}
    /\ chat' = [chat EXCEPT !.pc = "done"]
    /\ UNCHANGED <<storeVars, settingsVars, api_key, ret, norm, procVars, cli>>

\* generate(): client.messages.stream or the iteration raises.
StreamFails ==
    /\ chat.pc \in {"built", "streaming"}
    /\ chat' = [chat EXCEPT !.pc = "failed", !.error = APIError]
    /\ UNCHANGED <<storeVars, settingsVars, api_key, ret, norm, procVars, cli>>

\* The caller goes away: the server closes the generator where it stands.
StreamCancelled ==
    /\ chat.pc \in {"built", "streaming"}
    /\ chat' = [chat EXCEPT !.pc = "cancelled"]
    /\ UNCHANGED <<storeVars, settingsVars, api_key, ret, norm, procVars, cli>>

-----------------------------------------------------------------------------
(* The standalone script (src/transcribe.py main): download, transcribe and, *)
(* unless --transcript-only, extract, with the video removed in a finally    *)
(* block around everything after the download.  cli.files are the paths the  *)
(* run has made that exist; cli.calls counts the extract_recipe calls.       *)

CliIdle == [pc |-> "idle"]
KeepVideoArgs == {None, "", "kept.mp4"}
OutputArgs == {None, "out.json"}
\* A path the caller names, and the paths tempfile.mkdtemp gives.
CliPath(name) == <<name>>
CliTmpDir == <<"tmpdir", "cli">>
CliTmpVideo == <<"tmpdir", "cli", "video.mp4">>

\* Lines 142-148: parse_args, the choice of video_path (tempfile.mkdtemp when
\* --keep-video is not given), and the call of download_tiktok.
CliStart(keep_video, transcript_only, output) ==
    /\ cli.pc = "idle"
    /\ cli' = [pc |-> "download", keep_video |-> keep_video,
               transcript_only |-> transcript_only, output |-> output,
               video_path |-> IF Truthy(keep_video) THEN CliPath(keep_video) ELSE CliTmpVideo,
               files |-> IF Truthy(keep_video) THEN {} ELSE {CliTmpDir},
               transcript |-> None, calls |-> 0, error |-> Nothing]
    /\ UNCHANGED <<storeVars, settingsVars, api_key, ret, norm, chat, procVars>>

\* download_tiktok returns: yt-dlp has written the file.
CliDownloadOk ==
    /\ cli.pc = "download"
    /\ cli' = [cli EXCEPT !.pc = "transcribe", !.files = @ \cup {cli.video_path}]
    /\ UNCHANGED <<storeVars, settingsVars, api_key, ret, norm, chat, procVars>>

\* download_tiktok raises RuntimeError, outside the try block.
CliDownloadFails ==
    /\ cli.pc = "download"
    /\ cli' = [cli EXCEPT !.pc = "exited", !.error = [raises |-> "RuntimeError"]]
    /\ UNCHANGED <<storeVars, settingsVars, api_key, ret, norm, chat, procVars>>

\* Lines 151-163: transcribe_video returns, the transcript is printed, and
\* the run goes on to write it (--transcript-only with --output), to return
\* (--transcript-only) or to extract.
CliTranscribeOk(text) ==
    /\ cli.pc = "transcribe"
    /\ cli' = [cli EXCEPT !.transcript = text,
                          !.pc = IF cli.transcript_only
                                 THEN IF Truthy(cli.output) THEN "write" ELSE "finally"
                                 ELSE "extract"]
    /\ UNCHANGED <<storeVars, settingsVars, api_key, ret, norm, chat, procVars>>

\* transcribe_video raises.
CliTranscribeFails ==
    /\ cli.pc = "transcribe"
    /\ cli' = [cli EXCEPT !.pc = "finally", !.error = [raises |-> "transcribe_video"]]
    /\ UNCHANGED <<storeVars, settingsVars, api_key, ret, norm, chat, procVars>>

\* Lines 165-167: extract_recipe returns and the recipe is dumped to JSON.
CliExtractOk ==
    /\ cli.pc = "extract"
    /\ cli' = [cli EXCEPT !.calls = @ + 1,
                          !.pc = IF Truthy(cli.output) THEN "write" ELSE "finally"]
    /\ UNCHANGED <<storeVars, settingsVars, api_key, ret, norm, chat, procVars>>

\* extract_recipe raises (Ollama cannot be reached, or the answer is not JSON).
CliExtractFails ==
    /\ cli.pc = "extract"
    /\ cli' = [cli EXCEPT !.calls = @ + 1, !.pc = "finally",
                          !.error = [raises |-> "extract_recipe"]]
    /\ UNCHANGED <<storeVars, settingsVars, api_key, ret, norm, chat, procVars>>

\* Lines 159-161 and 169-171: the transcript or the recipe is written to --output.
CliWriteOk ==
    /\ cli.pc = "write"
    /\ cli' = [cli EXCEPT !.pc = "finally", !.files = @ \cup {CliPath(cli.output)}]
    /\ UNCHANGED <<storeVars, settingsVars, api_key, ret, norm, chat, procVars>>

\* open(args.output, "w") raises.
CliWriteFails ==
    /\ cli.pc = "write"
    /\ cli' = [cli EXCEPT !.pc = "finally", !.error = [raises |-> "OSError"]]
    /\ UNCHANGED <<storeVars, settingsVars, api_key, ret, norm, chat, procVars>>

\* Lines 176-178: the finally block, then main returns or the exception leaves.
CliFinally ==
    /\ cli.pc = "finally"
    /\ cli' = [cli EXCEPT !.pc = "exited",
                          !.files = IF ~Truthy(cli.keep_video) /\ cli.video_path \in cli.files
                                    THEN @ \ {cli.video_path}
                                    ELSE @]
    /\ UNCHANGED <<storeVars, settingsVars, api_key, ret, norm, chat, procVars>>

-----------------------------------------------------------------------------
(* _normalize_tiktok_url on its own: a raw URL, another raw URL with the    *)
(* same text before the query and fragment, and the result normalized again. *)

Strings(alphabet, n) == UNION {[1..k -> alphabet] : k \in 0..n}

UrlBases == Strings({"h", "z", ":", "/", ";"}, MaxBaseLen)
UrlSuffixes ==
    {<<>>} \cup {<<c>> \o t : c \in {"?", "#"}, t \in Strings({"?", "#", "q"}, MaxSuffixLen - 1)}

NormIdle == [pc |-> "idle"]

Normalize ==
    /\ norm.pc = "start"
    /\ norm' = [norm EXCEPT !.pc = "normalized",
                            !.url = _normalize_tiktok_url(norm.raw_url),
                            !.other_url = _normalize_tiktok_url(norm.other_raw_url)]
    /\ UNCHANGED <<storeVars, settingsVars, api_key, ret, chat, procVars, cli>>

NormalizeAgain ==
    /\ norm.pc = "normalized"
    /\ norm' = [norm EXCEPT !.pc = "again", !.again = _normalize_tiktok_url(norm.url)]
    /\ UNCHANGED <<storeVars, settingsVars, api_key, ret, chat, procVars, cli>>

-----------------------------------------------------------------------------
(* Specifications. *)

InitWith(key, n, ch) ==
    /\ recipes = {}
    /\ recipes_id_seq = 0
    /\ clock = 0
    /\ user_settings = {}
    /\ setcall = [c \in Callers |-> IdleCall]
    /\ api_key = key
    /\ saveLog = <<>>
    /\ ret = [op |-> "none"]
    /\ pc = [p \in Requests |-> "idle"]
    /\ req = [p \in Requests |-> Nothing]
    /\ result = [p \in Requests |-> Nothing]
    /\ transcript = [p \in Requests |-> None]
    /\ recipe_dict = [p \in Requests |-> Nothing]
    /\ response = [p \in Requests |-> Nothing]
    /\ calls = [p \in Requests |-> NoCalls]
    /\ hit = [p \in Requests |-> Nothing]
    /\ fs = {}
    /\ raised = [p \in Requests |-> <<>>]
    /\ norm = n
    /\ chat = ch
    /\ cli = CliIdle

Init == \E key \in {None, "sk"} : InitWith(key, NormIdle, ChatIdle)

\* The running service: POST /process requests, interleaved at their calls.
Process(p) ==
    \/ \E r \in ProcessRequests : CacheCheck(p, r.url, r.user_id)
    \/ \E caption \in Captions : DownloadOk(p, caption)
    \/ DownloadFails(p)
    \/ \E text \in Transcripts : TranscribeOk(p, text)
    \/ TranscribeFails(p)
    \/ \E out \in ModelOutputs : Extract(p, out)
    \/ Persist(p)

Next == \E p \in Requests : Process(p)

Spec == Init /\ [][Next]_vars

\* The running service when the database, yt-dlp and the file system can fail.
Faults(p) ==
    \/ \E r \in ProcessRequests : LookupFails(p, r.url, r.user_id)
    \/ DownloadCrashes(p)
    \/ \E text \in Transcripts : TranscribeOkUnlinkFails(p, text)
    \/ TranscribeFailsUnlinkFails(p)
    \/ SettingsReadFails(p)
    \/ PersistFails(p)

NextFaults == \E p \in Requests : Process(p) \/ Faults(p)

SpecFaults == Init /\ [][NextFaults]_vars

\* The running service across restarts that set or unset the API credential.
NextConfig ==
    \/ \E p \in Requests : Process(p)
    \/ \E key \in {None, "sk"} : Restart(key)

SpecConfig == Init /\ [][NextConfig]_vars

\* One POST /process request and a user who saves their settings once.
PrefSpiceArgs == {Some(t) : t \in (0 - MaxSpice)..MaxSpice}
PrefDietArgs == {None, "", "vegan"}

NextPrefs ==
    \/ Process(1)
    \/ /\ user_settings = {}
       /\ \E d \in PrefDietArgs, t \in PrefSpiceArgs, r \in RulesArgs :
             SetSettingsRead(1, "alice", d, t, r)
    \/ SetSettingsWrite(1)
    \/ SetSettingsReturn(1)

SpecPrefs == InitWith("sk", NormIdle, ChatIdle) /\ [][NextPrefs]_vars

\* The recipe store under any sequence of calls.
NextStore ==
    \/ /\ Len(saveLog) < MaxSaves
       /\ \E raw_url \in StoreUrls, payload \in Payloads, user_id \in UserArgs :
             SaveRecipe(raw_url, payload, user_id)
    \/ \E raw_url \in StoreUrls, user_id \in UserArgs : LookupRecipe(raw_url, user_id)
    \/ \E recipe_id \in 1..(recipes_id_seq + 1), user_id \in UserArgs \ {None} :
          GetRecipe(recipe_id, user_id)

SpecStore == InitWith("sk", NormIdle, ChatIdle) /\ [][NextStore]_vars

\* The recipes of two users, saved, overwritten and listed.
NextListing ==
    \/ /\ Len(saveLog) < MaxListedSaves
       /\ \E raw_url \in {Url_v, Url_w}, payload \in Payloads, user_id \in {None, "alice"} :
             SaveRecipe(raw_url, payload, user_id)
    \/ \E user_id \in {_ANON, "alice"} : ListRecipes(user_id)

SpecListing == InitWith("sk", NormIdle, ChatIdle) /\ [][NextListing]_vars

\* The settings store under calls made one after the other.
NextSettings ==
    \E c \in Callers :
        \/ /\ InFlight = {}
           /\ \E user_id \in SettingsUsers, d \in DietArgs, t \in SpiceArgs, r \in RulesArgs :
                 SetSettingsRead(c, user_id, d, t, r)
        \/ SetSettingsWrite(c)
        \/ SetSettingsReturn(c)

SpecSettings == InitWith("sk", NormIdle, ChatIdle) /\ [][NextSettings]_vars

\* The normalizer on every raw URL within the bounds.
InitNorm ==
    \E base \in UrlBases, suffix \in UrlSuffixes, other \in UrlSuffixes :
        InitWith("sk", [pc |-> "start", raw_url |-> base \o suffix,
                        other_raw_url |-> base \o other,
                        url |-> <<>>, other_url |-> <<>>, again |-> <<>>],
                 ChatIdle)

NextNorm == Normalize \/ NormalizeAgain

SpecNorm == InitNorm /\ [][NextNorm]_vars

\* The settings store under calls that overlap: each call's read, write and
\* final read are separate statements, each in its own session.
NextSettingsConcurrent ==
    \E c \in Callers :
        \/ \E user_id \in SettingsUsers, d \in DietArgs, t \in SpiceArgs, r \in RulesArgs :
              SetSettingsRead(c, user_id, d, t, r)
        \/ SetSettingsWrite(c)
        \/ SetSettingsReturn(c)

SpecSettingsConcurrent ==
    InitWith("sk", NormIdle, ChatIdle) /\ [][NextSettingsConcurrent]_vars

\* _build_chat_prompt on every history and message within the bounds.
InitChat ==
    \E history \in Histories, message \in ChatContents :
        InitWith("sk", NormIdle, ChatRequest(<<>>, 1, <<>>, message, history))

NextChat == BuildChatPrompt

SpecChat == InitChat /\ [][NextChat]_vars

\* _build_chat_prompt on every recipe, completed_steps and current_step within
\* the bounds.
InitChatSteps ==
    \E steps \in StepLists, completed_steps \in CompletedLists, current_step \in 0..MaxOrder :
        InitWith("sk", NormIdle, ChatRequest(steps, current_step, completed_steps, "a", <<>>))

NextChatSteps == BuildChatPrompt

SpecChatSteps == InitChatSteps /\ [][NextChatSteps]_vars

\* One chat turn beside one POST /process request and one save of settings.
InitChatTurn ==
    \E key \in {None, "sk"} :
        InitWith(key, NormIdle,
                 ChatRequest(<<Step(1, "stir")>>, 1, <<>>, "a", <<>>))

NextChatTurn ==
    \/ Process(1)
    \/ /\ user_settings = {}
       /\ \E d \in DietArgs : SetSettingsRead(1, "alice", d, NoNumber, None)
    \/ SetSettingsWrite(1)
    \/ SetSettingsReturn(1)
    \/ BuildChatPrompt
    \/ StreamChunk
    \/ StreamEnds
    \/ StreamFails
    \/ StreamCancelled

SpecChatTurn == InitChatTurn /\ [][NextChatTurn]_vars

\* A run of the standalone script on every combination of its options.
NextCli ==
    \/ \E keep_video \in KeepVideoArgs, transcript_only \in BOOLEAN, output \in OutputArgs :
          CliStart(keep_video, transcript_only, output)
    \/ CliDownloadOk
    \/ CliDownloadFails
    \/ \E text \in Transcripts : CliTranscribeOk(text)
    \/ CliTranscribeFails
    \/ CliExtractOk
    \/ CliExtractFails
    \/ CliWriteOk
    \/ CliWriteFails
    \/ CliFinally

SpecCli == InitWith("sk", NormIdle, ChatIdle) /\ [][NextCli]_vars

\* The service when no two operations overlap: POST /process requests, saves of
\* settings, listings and a chat turn, each begun when nothing else is running.
Quiet == /\ \A p \in Requests : pc[p] \in {"idle", "done", "failed"}
         /\ InFlight = {}

InitSequential ==
    InitWith("sk", NormIdle, ChatRequest(<<Step(1, "stir")>>, 1, <<>>, "a", <<>>))

NextSequential ==
    \/ \E p \in Requests :
          /\ Quiet \/ pc[p] \notin {"idle", "done", "failed"}
          /\ Process(p)
    \/ /\ Quiet
       /\ user_settings = {}
       /\ SetSettingsRead(1, "alice", "vegan", NoNumber, None)
    \/ SetSettingsWrite(1)
    \/ SetSettingsReturn(1)
    \/ Quiet /\ ListRecipes("alice")
    \/ Quiet /\ BuildChatPrompt
    \/ StreamEnds

SpecSequential == InitSequential /\ [][NextSequential]_vars

-----------------------------------------------------------------------------
(* Properties of POST /process. *)

KeyOf(r) == <<_normalize_tiktok_url(r.url), EffectiveUser(r.user_id)>>
RowsOf(key) == Conflicting(recipes, key[1], key[2])
Finished(p) == pc[p] \in {"done", "failed"}
Missed(p) == pc[p] # "idle" /\ hit[p] = Nothing
AllCalls == [download |-> 1, transcribe |-> 1, extract |-> 1, save |-> 1]

\* What a hit on `row` answers.
Answers(resp, row) ==
    /\ resp.status = 200
    /\ resp.transcript = row.transcript
    /\ resp.caption = row.caption
    /\ resp.recipe = Recipe(row.recipe)
    /\ resp.recipe_id = row.id

\* C1: a request whose (normalized url, effective user) key has a row when the
\* cache check runs ends successfully at that step, answering the row's
\* transcript, caption, recipe document and id, and a request that hit has made
\* no call to the downloader, the transcriber, the extractor or save_recipe.
C1_CacheShortCircuit ==
    /\ [][\A p \in Requests :
            (pc[p] = "idle" /\ pc'[p] # "idle" /\ RowsOf(KeyOf(req'[p])) # {})
            => /\ pc'[p] = "done"
               /\ \E row \in RowsOf(KeyOf(req'[p])) : Answers(response'[p], row)
               /\ calls'[p] = NoCalls]_vars
    /\ [](\A p \in Requests : hit[p] # Nothing => pc[p] = "done" /\ calls[p] = NoCalls)

\* A request answered from the cache through a raw URL carrying a query and a
\* fragment, with no call made.
C1_Witness ==
    \E p \in Requests :
        /\ pc[p] = "done" /\ hit[p] # Nothing /\ calls[p] = NoCalls
        /\ req[p].url = Url_v_q
        /\ \E row \in recipes : Answers(response[p], row)

\* C2: a request that missed the cache and ended successfully has made exactly
\* one download, one transcription, one extraction and one save_recipe call; a
\* request that hit has made none; no request ever makes a call twice.
C2_ExactlyOnce ==
    \A p \in Requests :
        /\ (pc[p] = "done" /\ hit[p] = Nothing) => calls[p] = AllCalls
        /\ (pc[p] = "done" /\ hit[p] # Nothing) => calls[p] = NoCalls
        /\ \A stage \in DOMAIN calls[p] : calls[p][stage] <= 1

\* One request ended on a miss and another on a hit.
C2_Witness ==
    \E p, q \in Requests :
        /\ pc[p] = "done" /\ hit[p] = Nothing /\ calls[p] = AllCalls
        /\ pc[q] = "done" /\ hit[q] # Nothing /\ calls[q] = NoCalls

\* The save_recipe calls made on a key, as positions of saveLog, and the last one.
SavesOn(key) == {i \in 1..Len(saveLog) : saveLog[i].url = key[1] /\ saveLog[i].user = key[2]}
LastSaveOn(key) == saveLog[Max(SavesOn(key))]

\* C4: under any interleaving of requests for one key that all miss, there is
\* never more than one row per (url, user_id); the row's transcript, caption
\* and recipe are those of one request, the last to persist; and the requests
\* that ended successfully on that key were all given the same row id.
C4_ConcurrentMissesConverge ==
    /\ \A r1, r2 \in recipes : (r1.url = r2.url /\ r1.user_id = r2.user_id) => r1 = r2
    /\ \A row \in recipes :
         LET last == LastSaveOn(<<row.url, row.user_id>>)
         IN  /\ row.transcript = last.transcript
             /\ row.caption = last.caption
             /\ row.recipe = last.recipe
             /\ response[last.by].transcript = row.transcript
             /\ response[last.by].caption = row.caption
             /\ response[last.by].recipe = Recipe(row.recipe)
    /\ \A p, q \in Requests :
         (pc[p] = "done" /\ pc[q] = "done" /\ KeyOf(req[p]) = KeyOf(req[q]))
         => response[p].recipe_id = response[q].recipe_id

\* Two requests for one key both missed, both persisted, with payloads that
\* differ in every field.
C4_Witness ==
    \E p, q \in Requests :
        /\ p # q /\ pc[p] = "done" /\ pc[q] = "done"
        /\ Missed(p) /\ Missed(q) /\ KeyOf(req[p]) = KeyOf(req[q])
        /\ response[p].transcript # response[q].transcript
        /\ response[p].caption # response[q].caption
        /\ response[p].recipe # response[q].recipe
        /\ Cardinality(RowsOf(KeyOf(req[p]))) = 1

\* C9: once the transcribe stage of a request has concluded, with a transcript
\* or with a failure, neither the downloaded file nor the temporary directory
\* made to hold it exists.
C9_TranscribeCleansUp ==
    \A p \in Requests :
        calls[p].transcribe = 1 => VideoPath(p) \notin fs /\ TmpDir(p) \notin fs

\* C10: when a request has ended, successfully or at any stage's failure, no
\* temporary file or directory it acquired exists.
C10_NothingLeftBehind ==
    \A p \in Requests :
        Finished(p) => VideoPath(p) \notin fs /\ TmpDir(p) \notin fs

-----------------------------------------------------------------------------
(* Properties of the recipe store. *)

FirstSaveOn(key) == saveLog[Min(SavesOn(key))]
SavedKeys == {<<saveLog[i].url, saveLog[i].user>> : i \in 1..Len(saveLog)}

\* C3: after any save_recipe calls, each key saved has exactly one row; the
\* row's transcript, caption and recipe are those of the last call on the key,
\* its id and created_at those given by the first, and every call on the key
\* returned that id.
C3_IdempotentUpsert ==
    \A key \in SavedKeys :
        /\ Cardinality(RowsOf(key)) = 1
        /\ \A row \in RowsOf(key) :
             /\ row.transcript = LastSaveOn(key).transcript
             /\ row.caption = LastSaveOn(key).caption
             /\ row.recipe = LastSaveOn(key).recipe
             /\ row.id = FirstSaveOn(key).rid
             /\ row.created_at = FirstSaveOn(key).at
             /\ \A i \in SavesOn(key) : saveLog[i].rid = row.id

\* Two calls on one key, through different raw URLs and with different
\* payloads; the second has returned the id the first was given.
C3_Witness ==
    \E i, j \in 1..Len(saveLog) :
        /\ i < j
        /\ saveLog[i].url = saveLog[j].url /\ saveLog[i].user = saveLog[j].user
        /\ saveLog[i].raw_url # saveLog[j].raw_url
        /\ saveLog[i].transcript # saveLog[j].transcript
        /\ recipes_id_seq > saveLog[i].rid
        /\ ret.op = "save_recipe" /\ ret.value = saveLog[i].rid

\* The user_id arguments of the save_recipe calls that wrote the row `id`.
SavedWith(id) == {saveLog[i].user_id : i \in {k \in 1..Len(saveLog) : saveLog[k].rid = id}}

\* C6: lookup_recipe(url, None) returns a row only if it was saved with
\* user_id=None, never one saved with an identifier a caller supplied, and
\* lookup_recipe(url, u) for a supplied u never returns a row saved with None.
C6_AnonymousIsolation ==
    (ret.op = "lookup_recipe" /\ ret.value # Nothing)
    => IF ret.user_id = None
       THEN SavedWith(ret.value.id) = {None}
       ELSE None \notin SavedWith(ret.value.id)

Summary(row) ==
    [id |-> row.id, url |-> row.url, recipe |-> row.recipe, created_at |-> row.created_at]

\* C7: for every row and every user other than its owner, get_recipe_by_id
\* returns nothing and GET /recipes/{id} answers 404, as for an id that no row
\* has; for the owner it returns the row.
C7_OwnershipIsolation ==
    /\ \A row \in recipes, user_id \in UserArgs \ {None} :
         get_recipe_by_id(row.id, user_id) =
            IF user_id = row.user_id THEN Summary(row) ELSE Nothing
    /\ ret.op = "get_recipe" =>
         IF \E row \in recipes : row.id = ret.recipe_id /\ row.user_id = ret.user_id
         THEN ret.status = 200 /\ \E row \in recipes : ret.value = Summary(row)
         ELSE ret.status = 404 /\ ret.value = Nothing

\* GET /recipes/{id} answered 404 to a user for a row that another user owns.
C7_Witness ==
    /\ ret.op = "get_recipe" /\ ret.status = 404
    /\ \E row \in recipes :
         /\ row.id = ret.recipe_id /\ row.user_id # ret.user_id
         /\ get_recipe_by_id(row.id, row.user_id) = Summary(row)

-----------------------------------------------------------------------------
(* Properties of the URL normalizer. *)

-----------------------------------------------------------------------------
(* Properties of the settings store. *)

SettingsOf(rows, user_id) == {row \in rows : row.user_id = user_id}
Fields == {"dietary_restrictions", "spice_tolerance", "custom_rules"}
Provided(call, field) ==
    IF field = "spice_tolerance" THEN call[field] # NoNumber ELSE call[field] # None
ProvidedValue(call, field) ==
    IF field = "spice_tolerance" THEN call[field][1] ELSE call[field]
DefaultOf(field) == IF field = "spice_tolerance" THEN 2 ELSE None

\* C8: in a sequence of set_user_settings calls, after each call's write every
\* field the call provided holds the provided value and every field it omitted
\* holds the value stored just before (spice_tolerance 2 and null for the
\* others when no row existed); there is at most one row per user_id.
C8_SettingsMerge ==
    /\ [][\A c \in Callers :
            (setcall[c].pc = "merged" /\ setcall'[c].pc = "written")
            => /\ Cardinality(SettingsOf(user_settings', setcall[c].user_id)) = 1
               /\ \A after \in SettingsOf(user_settings', setcall[c].user_id) :
                  \A field \in Fields :
                     after[field] =
                        IF Provided(setcall[c], field)
                        THEN ProvidedValue(setcall[c], field)
                        ELSE IF SettingsOf(user_settings, setcall[c].user_id) = {}
                             THEN DefaultOf(field)
                             ELSE get_user_settings(setcall[c].user_id)[field]]_vars
    /\ [](\A r1, r2 \in user_settings : r1.user_id = r2.user_id => r1 = r2)

\* A call that provides only spice_tolerance = 0 has returned, the row keeping
\* the dietary_restrictions an earlier call stored.
C8_Witness ==
    /\ ret.op = "set_user_settings" /\ ret.value # Nothing
    /\ ret.value.spice_tolerance = 0
    /\ ret.value.dietary_restrictions = "vegan"
    /\ ret.value.custom_rules = None
    /\ ret.value.updated_at > 1

\* C21: every set_user_settings write, insert or update, sets the row's
\* updated_at to the time of the write, also when the merged values are the
\* ones already stored; updated_at of a user's row never decreases.
C21_UpdatedAtRefreshed ==
    /\ [][\A c \in Callers :
            (setcall[c].pc = "merged" /\ setcall'[c].pc = "written")
            => /\ clock' > clock
               /\ \A after \in SettingsOf(user_settings', setcall[c].user_id) :
                     after.updated_at = clock']_vars
    /\ [][\A before \in user_settings, after \in user_settings' :
            before.user_id = after.user_id => before.updated_at <= after.updated_at]_vars

\* A call that provided no field has written over a row that an earlier call
\* stored: nothing but updated_at changed.
C21_Witness ==
    \E c \in Callers :
        /\ setcall[c].pc = "written"
        /\ \A field \in Fields : ~Provided(setcall[c], field)
        /\ \E row \in SettingsOf(user_settings, setcall[c].user_id) :
              /\ row.dietary_restrictions = "vegan"
              /\ row.updated_at = clock /\ clock > 1

\* C20: under any interleaving of set_user_settings calls on one user, a
\* call's write leaves every field the call omitted as it was stored just
\* before the write, so that calls providing different fields all take effect.
C20_ConcurrentSettingsMerge ==
    [][\A c \in Callers :
          (setcall[c].pc = "merged" /\ setcall'[c].pc = "written")
          => \A before \in SettingsOf(user_settings, setcall[c].user_id),
                after \in SettingsOf(user_settings', setcall[c].user_id),
                field \in Fields :
                ~Provided(setcall[c], field) => after[field] = before[field]]_vars

-----------------------------------------------------------------------------
(* Properties of POST /process when calls fail. *)

\* The first call that raised in request p, "" when none did.
FirstRaised(p) == IF raised[p] = <<>> THEN "" ELSE raised[p][1]

\* The stage each call belongs to.
StageOf(call) ==
    CASE call = "lookup_recipe" -> "cache check"
      [] call = "_get_api_key" -> "configuration"
      [] call \in {"download_tiktok", "subprocess.run"} -> "download"
      [] call \in {"transcribe_video", "os.unlink"} -> "transcribe"
      [] call \in {"get_user_settings", "_settings_prompt_block", "extract_recipe",
                   "Recipe"} -> "extract"
      [] call = "save_recipe" -> "persist"
      [] OTHER -> "none"

\* The stage at which request p failed, "none" when it did not fail.
FailedStage(p) == IF hit[p] # Nothing THEN "none" ELSE StageOf(FirstRaised(p))

\* C11: when transcription fails and the deletion of the temporary file fails
\* too, the request still answers 500 "Transcription failed".
C11_CleanupDoesNotMask ==
    \A p \in Requests :
        (pc[p] = "failed" /\ FirstRaised(p) = "transcribe_video")
        => response[p] = HTTPException(500, "Transcription failed")

\* C12: on the miss path a request answers 422 exactly when its download stage
\* failed, and 500 when its transcription or its extraction stage failed.
C12_FailureMapping ==
    \A p \in Requests :
        (pc[p] = "failed" /\ hit[p] = Nothing)
        => /\ response[p].status = 422 <=> FailedStage(p) = "download"
           /\ FailedStage(p) \in {"transcribe", "extract"} => response[p].status = 500

\* C13: while the API credential is not set no POST /process request ends
\* successfully, whatever the recipe store holds: the request answers 500 for
\* the missing configuration.
C13_FailFastConfiguration ==
    [][\A p \in Requests :
          (pc[p] = "idle" /\ pc'[p] # "idle" /\ api_key_missing)
          => /\ pc'[p] = "failed"
             /\ response'[p] = HTTPException(500, "ANTHROPIC_API_KEY is not configured")]_vars

\* C14: a request that ends in failure at the download, transcribe or extract
\* stage has made no save_recipe call, and no step other than a save_recipe
\* call changes the recipe table or its id sequence, so the store is as it
\* was when the request started unless another request wrote to it.
C14_FailedRunsPersistNothing ==
    /\ [][saveLog' = saveLog => (recipes' = recipes /\ recipes_id_seq' = recipes_id_seq)]_vars
    /\ [][\A p \in Requests :
            (pc[p] \in {"download", "transcribe", "extract"} /\ pc'[p] = "failed")
            => /\ recipes' = recipes /\ recipes_id_seq' = recipes_id_seq
               /\ calls'[p].save = 0
               /\ \A i \in 1..Len(saveLog') : saveLog'[i].by # p]_vars

\* A request failed at its extract stage after another request had stored a row.
C14_Witness ==
    \E p \in Requests :
        /\ pc[p] = "failed" /\ FailedStage(p) = "extract"
        /\ recipes # {}
        /\ \A i \in 1..Len(saveLog) : saveLog[i].by # p

\* The position of each stage in process_video, and of each value of pc.
StageNo(stage) ==
    CASE stage = "cache check" -> 1
      [] stage = "configuration" -> 1
      [] stage = "download" -> 2
      [] stage = "transcribe" -> 3
      [] stage = "extract" -> 4
      [] stage = "persist" -> 5
      [] OTHER -> 0

PcNo(at) ==
    CASE at = "idle" -> 1
      [] at = "download" -> 2
      [] at = "transcribe" -> 3
      [] at = "extract" -> 4
      [] at = "persist" -> 5
      [] OTHER -> 6

\* The detail of the failure that names each stage.
DetailOf(stage) ==
    CASE stage = "configuration" -> {"ANTHROPIC_API_KEY is not configured"}
      [] stage = "download" -> {"Failed to download video"}
      [] stage = "transcribe" -> {"Transcription failed"}
      [] stage = "extract" -> {"Recipe extraction failed"}
      [] OTHER -> {}

\* C19: the stages run in the order cache check, download, transcribe,
\* extract, persist, each at most once and only after the one before it
\* succeeded; after the first failing stage no later stage is called, and the
\* request ends in a failure that names that stage.
C19_StageOrderNoRetries ==
    /\ [][\A p \in Requests :
            pc'[p] # pc[p]
            => \/ pc'[p] = "failed"
               \/ PcNo(pc'[p]) = PcNo(pc[p]) + 1
               \/ pc[p] = "idle" /\ pc'[p] = "done" /\ hit'[p] # Nothing]_vars
    /\ [](\A p \in Requests :
            /\ \A stage \in DOMAIN calls[p] : calls[p][stage] <= 1
            /\ calls[p].save <= calls[p].extract
            /\ calls[p].extract <= calls[p].transcribe
            /\ calls[p].transcribe <= calls[p].download)
    /\ [](\A p \in Requests :
            pc[p] = "failed"
            => /\ raised[p] # <<>>
               /\ StageNo(FailedStage(p)) <= 2 => calls[p].transcribe = 0
               /\ StageNo(FailedStage(p)) <= 3 => calls[p].extract = 0
               /\ StageNo(FailedStage(p)) <= 4 => calls[p].save = 0
               /\ response[p].detail \in DetailOf(FailedStage(p)))

-----------------------------------------------------------------------------
(* Properties of the extraction with the user's preferences. *)

Range(f) == {f[i] : i \in DOMAIN f}

\* The stored settings an extraction of request p is given, Nothing when none.
SuppliedSettings(p) ==
    IF Truthy(req[p].user_id) THEN get_user_settings(req[p].user_id) ELSE Nothing

SpiceLines(block) == {l \in Range(block.lines) : l.line = "Spice tolerance"}

\* C15: for every stored spice_tolerance the preference block renders a label
\* of the six-entry table, the label of 5 for values above 5, and the table is
\* never indexed out of range.
C15_SpiceLabelClamp ==
    [][\A p \in Requests :
          (pc[p] = "extract" /\ pc'[p] # "extract" /\ SuppliedSettings(p) # Nothing)
          => /\ FirstRaised(p)' # "_settings_prompt_block"
             /\ SystemBlock(req[p].user_id) # IndexError
             /\ \E l \in SpiceLines(SystemBlock(req[p].user_id)) :
                   /\ l.label \in Range(spice_labels)
                   /\ l.value > 5 => l.label = "5 = very high"]_vars

\* The lines of a block that carry `name`.
LinesNamed(block, name) == {i \in DOMAIN block.lines : block.lines[i].line = name}

\* A text field of a settings row is rendered, verbatim, exactly when it is
\* not empty.
RendersText(block, name, value) ==
    IF value \in {None, ""}
    THEN LinesNamed(block, name) = {}
    ELSE /\ Cardinality(LinesNamed(block, name)) = 1
         /\ \A i \in LinesNamed(block, name) : block.lines[i].value = value

\* C22: in a miss that reaches the extraction, the preference block is
\* appended exactly when the request carries a user_id and that user has a
\* settings row; an appended block holds the spice-tolerance line, and the
\* dietary-restrictions and custom-rules lines, verbatim, exactly when those
\* fields are not empty; a request without user_id gets no block.
C22_PreferenceInjection ==
    [][\A p \in Requests :
          (pc[p] = "extract" /\ pc'[p] # "extract")
          => /\ SystemBlock(req[p].user_id) \notin {IndexError, [lines |-> <<>>]}
                <=> /\ req[p].user_id \notin {None, ""}
                    /\ \E row \in user_settings : row.user_id = req[p].user_id
             /\ req[p].user_id = None => SystemBlock(req[p].user_id) = [lines |-> <<>>]
             /\ \A row \in user_settings :
                   (row.user_id = req[p].user_id
                    /\ SystemBlock(req[p].user_id) \notin {IndexError, [lines |-> <<>>]})
                   => /\ \E i \in LinesNamed(SystemBlock(req[p].user_id), "Spice tolerance") :
                           SystemBlock(req[p].user_id).lines[i].value = row.spice_tolerance
                      /\ RendersText(SystemBlock(req[p].user_id),
                                     "Dietary restrictions or allergies",
                                     row.dietary_restrictions)
                      /\ RendersText(SystemBlock(req[p].user_id), "Additional rules",
                                     row.custom_rules)]_vars

\* What extract_recipe makes of the model's dict `out`, said without it.
Disclosed(d, out) ==
    /\ d.title = out.title
    /\ d.extra = out.extra
    /\ d.modifications = IF out.modifications = Absent THEN "[]" ELSE out.modifications

\* C16: the dict extract_recipe returns is the model's dict with "modifications"
\* set to the empty list when the model returned no such key and left as
\* returned otherwise, with or without preferences; that dict is the one
\* persisted, and the document answered carries the same "modifications".
C16_ModificationsDisclosed ==
    /\ [][\A p \in Requests :
            (pc[p] = "extract" /\ pc'[p] = "persist")
            => \E out \in ModelDicts : Disclosed(recipe_dict'[p], out)]_vars
    /\ [][\A p \in Requests :
            (pc[p] = "persist" /\ pc'[p] = "done")
            => /\ saveLog'[Len(saveLog')].recipe = recipe_dict[p]
               /\ \E row \in recipes' :
                     /\ row.id = response'[p].recipe_id
                     /\ row.recipe = recipe_dict[p]
               /\ response'[p].recipe.modifications = recipe_dict[p].modifications]_vars
    /\ [](\A row \in recipes : row.recipe.modifications # Absent)

\* A request of a user with stored preferences ended successfully on a model
\* answer without "modifications": the row and the answer carry the empty list.
C16_Witness ==
    \E p \in Requests :
        /\ pc[p] = "done" /\ hit[p] = Nothing /\ req[p].user_id = "alice"
        /\ response[p].recipe.title = "T1" /\ response[p].recipe.modifications = "[]"
        /\ \E row \in recipes, settings \in user_settings :
              /\ row.id = response[p].recipe_id /\ row.recipe.modifications = "[]"
              /\ settings.user_id = "alice" /\ settings.updated_at < row.created_at

-----------------------------------------------------------------------------
(* Properties of the chat prompt. *)

\* C17: the assembled sequence has one element more than the history; its
\* first elements are the history's, role and content, in the same order; its
\* last element is the new message with role "user".
C17_ChatOrdering ==
    chat.pc = "built"
    => /\ Len(chat.messages) = Len(chat.history) + 1
       /\ \A i \in 1..Len(chat.history) :
             /\ chat.messages[i].role = chat.history[i].role
             /\ chat.messages[i].content = chat.history[i].content
             /\ DOMAIN chat.messages[i] = {"role", "content"}
       /\ chat.messages[Len(chat.messages)] = [role |-> "user", content |-> chat.message]

\* A history that starts with an assistant message and repeats a content.
C17_Witness ==
    /\ chat.pc = "built"
    /\ Len(chat.history) = MaxHistory
    /\ chat.history[1].role = "assistant"
    /\ chat.history[2].role = "user"
    /\ chat.history[1].content = chat.history[MaxHistory].content
    /\ chat.message # chat.history[MaxHistory].content

-----------------------------------------------------------------------------
(* Properties of the listing. *)

Ids(list) == [i \in 1..Len(list) |-> list[i].id]
OwnedBy(user_id) == {row \in recipes : row.user_id = user_id}

\* C18: list_recipes_for_user(u) returns one summary (id, url, recipe,
\* created_at) for each row whose user_id is u and nothing else, ordered by
\* created_at descending; a save_recipe call that overwrites a row leaves the
\* order of every user's list as it was.
C18_Listing ==
    /\ [](\A user_id \in {_ANON, "alice"} :
            /\ Len(list_recipes_for_user(user_id)) = Cardinality(OwnedBy(user_id))
            /\ Range(list_recipes_for_user(user_id))
                  = {[id |-> row.id, url |-> row.url, recipe |-> row.recipe,
                      created_at |-> row.created_at] : row \in OwnedBy(user_id)}
            /\ \A i, j \in 1..Len(list_recipes_for_user(user_id)) :
                  i < j => list_recipes_for_user(user_id)[i].created_at
                             >= list_recipes_for_user(user_id)[j].created_at)
    /\ [](ret.op = "list_recipes_for_user" =>
            /\ Len(ret.value) <= Cardinality(recipes)
            /\ \A i \in 1..Len(ret.value) :
                  \E row \in recipes : row.id = ret.value[i].id /\ row.user_id = ret.user_id)
    /\ [][\A user_id \in {_ANON, "alice"} :
            (Len(saveLog') > Len(saveLog) /\ Cardinality(recipes') = Cardinality(recipes))
            => Ids(list_recipes_for_user(user_id))' = Ids(list_recipes_for_user(user_id))]_vars

\* A user's two rows were listed after the older one had been overwritten: the
\* overwritten row is still last.
C18_Witness ==
    /\ ret.op = "list_recipes_for_user" /\ Len(ret.value) = 2
    /\ \E i \in 1..Len(saveLog) :
          /\ saveLog[i].rid = ret.value[2].id
          /\ saveLog[i].at > ret.value[1].created_at
          /\ ret.value[2].recipe = saveLog[i].recipe

-----------------------------------------------------------------------------
(* Properties of a chat turn. *)

\* C23: steps_text has one line per step of the recipe, in the order of the
\* recipe; a line carries [COMPLETED] exactly when the step's order is in
\* completed_steps and [CURRENT] exactly when it equals current_step, with
\* [COMPLETED] first when both hold; the steps, completed_steps and
\* current_step of the request are never rejected and never changed.
C23_StepMarkers ==
    chat.pc = "built"
    => /\ Len(chat.steps_text) = Len(chat.steps)
       /\ \A i \in 1..Len(chat.steps) :
             /\ chat.steps_text[i].order = chat.steps[i].order
             /\ chat.steps_text[i].instruction = chat.steps[i].instruction
             /\ PyIn("[COMPLETED]", chat.steps_text[i].markers)
                <=> chat.steps[i].order \in {chat.completed_steps[j] : j \in DOMAIN chat.completed_steps}
             /\ PyIn("[CURRENT]", chat.steps_text[i].markers)
                <=> chat.steps[i].order = chat.current_step
             /\ chat.steps_text[i].markers
                \in {<<>>, <<"[COMPLETED]">>, <<"[CURRENT]">>, <<"[COMPLETED]", "[CURRENT]">>}

C23_StepsLeftAlone ==
    [][/\ chat'.pc # "failed"
       /\ chat'.steps = chat.steps
       /\ chat'.completed_steps = chat.completed_steps
       /\ chat'.current_step = chat.current_step]_vars

C23_ChatStepMarkers == []C23_StepMarkers /\ C23_StepsLeftAlone

\* A recipe with two steps of the same order, both completed and current.
C23_Witness ==
    /\ chat.pc = "built"
    /\ Len(chat.steps) = MaxSteps
    /\ chat.steps[1].order = chat.steps[2].order
    /\ chat.steps[1].instruction # chat.steps[2].instruction
    /\ chat.current_step = chat.steps[1].order
    /\ PyIn(chat.current_step, chat.completed_steps)
    /\ chat.steps_text[2].markers = <<"[COMPLETED]", "[CURRENT]">>

\* C24: no step of a chat turn, to its end, its failure or its cancellation,
\* changes the recipe store or the settings store, calls a stage of the
\* pipeline or leaves a file.
C24_ChatChangesNothingStored ==
    [][chat' # chat
       => UNCHANGED <<recipes, recipes_id_seq, saveLog, user_settings, setcall, calls, fs>>]_vars

C24_Witness ==
    /\ chat.pc = "cancelled"
    /\ chat.chunks = 1
    /\ recipes # {}
    /\ user_settings # {}

-----------------------------------------------------------------------------
(* Properties of the cache over time. *)

\* The fields of a row that a refresh would change or renew.
Cached(row) ==
    [url |-> row.url, user_id |-> row.user_id, transcript |-> row.transcript,
     caption |-> row.caption, recipe |-> row.recipe, id |-> row.id,
     created_at |-> row.created_at]

\* C25: when operations do not overlap, no step changes the transcript,
\* caption, recipe, id or created_at of a row that exists; save_recipe is
\* reached only by the persist step of a request and then adds a row; and a
\* request that hits answers what the first save on its key stored, whatever
\* the settings have become since.
C25_NoCacheRefresh ==
    /\ [][\A row \in recipes : \E kept \in recipes' : Cached(kept) = Cached(row)]_vars
    /\ [][saveLog' # saveLog
          => /\ \E p \in Requests : pc[p] = "persist" /\ pc'[p] = "done"
             /\ Len(saveLog') = Len(saveLog) + 1
             /\ Cardinality(recipes') = Cardinality(recipes) + 1]_vars
    /\ [](\A p \in Requests :
            hit[p] # Nothing
            => /\ response[p].transcript = FirstSaveOn(KeyOf(req[p])).transcript
               /\ response[p].recipe = Recipe(FirstSaveOn(KeyOf(req[p])).recipe))

\* alice's video is extracted, she then saves a dietary restriction, and her
\* next request for the video is answered from the row.
C25_Witness ==
    /\ 2 \in Requests
    /\ Missed(1) /\ pc[1] = "done" /\ req[1].user_id = "alice"
    /\ hit[2] # Nothing /\ KeyOf(req[2]) = KeyOf(req[1])
    /\ response[2].recipe = response[1].recipe
    /\ \E row \in RowsOf(KeyOf(req[1])), settings \in user_settings :
          /\ settings.user_id = "alice"
          /\ settings.dietary_restrictions = "vegan"
          /\ settings.updated_at > row.created_at
    /\ chat.pc = "done"


\* What a request was answered: a response without its status.
Answered(p) ==
    [transcript |-> response[p].transcript, caption |-> response[p].caption,
     recipe |-> response[p].recipe, recipe_id |-> response[p].recipe_id]

\* C26 as the claim words it: a request that missed and succeeded, and any
\* request for the same key that came after it and succeeded, were answered the
\* same transcript, caption, recipe_id and recipe document.
C26_HitEqualsMiss_AsStated ==
    \A p, q \in Requests :
        (p < q /\ Missed(p) /\ pc[p] = "done" /\ pc[q] = "done"
         /\ KeyOf(req[p]) = KeyOf(req[q]))
        => Answered(q) = Answered(p)

\* C26: a request that missed and succeeded, and any request for the same key
\* that came after it and succeeded, were answered the same transcript,
\* caption, recipe_id and recipe document, as long as no other miss on the key
\* has stored its own result over the first (requests for a key that do not
\* overlap never do).
C26_HitEqualsMiss ==
    \A p, q \in Requests :
        (p < q /\ Missed(p) /\ pc[p] = "done" /\ pc[q] = "done"
         /\ KeyOf(req[p]) = KeyOf(req[q])
         /\ Cardinality(SavesOn(KeyOf(req[p]))) = 1)
        => Answered(q) = Answered(p)

\* A hit through another raw URL on a row whose stored dict has a key the
\* validated document has not.
C26_Witness ==
    \E p, q \in Requests :
        /\ p < q /\ Missed(p) /\ pc[p] = "done" /\ pc[q] = "done"
        /\ hit[q] # Nothing
        /\ KeyOf(req[p]) = KeyOf(req[q])
        /\ req[p].url # req[q].url
        /\ Cardinality(SavesOn(KeyOf(req[p]))) = 1
        /\ \A row \in RowsOf(KeyOf(req[p])) :
              row.recipe.extra /\ response[q].recipe # row.recipe


\* C27: a request that finds no row for its key while the API credential is
\* not set ends at that step, answering 500 for the missing configuration; it
\* has made no download, transcribe, extract or save call and no temporary
\* directory or video file was made for it.
C27_CredentialCheckFirst ==
    /\ [][\A p \in Requests :
            (pc[p] = "idle" /\ pc'[p] # "idle" /\ api_key \in {None, ""}
             /\ RowsOf(KeyOf(req'[p])) = {})
            => /\ pc'[p] = "failed"
               /\ response'[p] = HTTPException(500, "ANTHROPIC_API_KEY is not configured")
               /\ calls'[p] = NoCalls
               /\ fs' = fs]_vars
    /\ [](\A p \in Requests :
            raised[p] = <<"_get_api_key">>
            => /\ pc[p] = "failed"
               /\ calls[p] = NoCalls
               /\ TmpDir(p) \notin fs /\ VideoPath(p) \notin fs)

\* A miss refused for the missing credential on a service that had stored a
\* recipe before the credential was taken away.
C27_Witness ==
    \E p \in Requests :
        /\ api_key \in {None, ""}
        /\ pc[p] = "failed" /\ hit[p] = Nothing
        /\ response[p] = HTTPException(500, "ANTHROPIC_API_KEY is not configured")
        /\ calls[p] = NoCalls
        /\ recipes # {}
        /\ RowsOf(KeyOf(req[p])) = {}


-----------------------------------------------------------------------------
(* Properties of the standalone script. *)

CliDownloaded == cli.pc \in {"transcribe", "extract", "write", "finally", "exited"}
                 /\ (cli.pc = "exited" => cli.error # [raises |-> "RuntimeError"])

\* The run has left main.
CliExitsClean ==
    (cli.pc = "exited" /\ ~Truthy(cli.keep_video)) => cli.video_path \notin cli.files

\* With --keep-video the file, once downloaded, stays.
CliKeepsVideo ==
    (cli.pc # "idle" /\ Truthy(cli.keep_video) /\ CliDownloaded)
    => cli.video_path \in cli.files

\* With --transcript-only extract_recipe is not called.
CliTranscriptOnly ==
    (cli.pc # "idle" /\ cli.transcript_only) => cli.calls = 0 /\ cli.pc # "extract"

\* C28: in a run without --keep-video the video no longer exists once the
\* transcription step has ended, nor after any way out of main that follows a
\* successful download; with --keep-video the file is never deleted; with
\* --transcript-only extract_recipe is never called.
C28_CliCleanup ==
    /\ (cli.pc \in {"extract", "write"} /\ ~Truthy(cli.keep_video))
       => cli.video_path \notin cli.files
    /\ CliExitsClean
    /\ CliKeepsVideo
    /\ CliTranscriptOnly

\* What the script does keep of the claim.
CliCleanupAtExit == CliExitsClean /\ CliKeepsVideo /\ CliTranscriptOnly

=========================================================================
